---- MODULE Spec2Model ----
(***************************************************************************)
(* gelf-rs: GELF UDP receiver.                                             *)
(*                                                                         *)
(*   Spec      the ChunkAccumulator (src/receiver/chunk_accumulator.rs):   *)
(*             accept, the reaper thread, Drop, and a clock.               *)
(*   SpecRecv  the Receiver's listen loop (src/receiver/mod.rs) with the   *)
(*             packet classifier and the chunk parser (src/message).       *)
(*   SpecCodec unpack_complete on its own (src/message/mod.rs).            *)
(*   SpecMsg   the ChunkAccumulator of src/message/chunk_accumulator.rs.   *)
(*   SpecLive  Spec with the acceptor and the reaper scheduled fairly.     *)
(*                                                                         *)
(* Time is counted in ticks of 1/TicksPerSec second, so that the whole-    *)
(* second truncation of ChunkSet::expires_in is visible.  Every timestamp  *)
(* is kept relative to the clock: get_time() reads 0, a timestamp t ticks  *)
(* in the past is -t, and a tick of the clock lowers every stored          *)
(* timestamp by one.  The code only ever subtracts two timestamps, so      *)
(* nothing it computes depends on the origin.  Timestamps older than       *)
(* OldestKept are kept as OldestKept: nothing distinguishes them.          *)
(***************************************************************************)
EXTENDS Integers, Sequences, FiniteSets, TLC

VARIABLES
    map,            \* ChunkAccumulator.map: HashMap<Vec<u8>, ChunkSet>
    poisoned,       \* the Mutex around map is poisoned (a holder panicked)
    chan,           \* signals sent on reaper_tx and not yet received by rx
    acc_pc,         \* the accepting thread: "idle", "insert", "panicked"
    new_set,        \* accept's local (id, new_set) between send and insert
    eviction_fifo,  \* the reaper's queue of (id, expires_in)
    timeout,        \* the reaper's armed oneshot timer, or the never receiver
    reaper_pc,      \* the reaper: "start", "select", "lock", "done", "failed", "panicked"
    evict_id,       \* the id the reaper popped and is about to remove
    dropped,        \* Drop for ChunkAccumulator has sent Quit
    result,         \* what the last accept call did
    calls,          \* history: number of accept calls made
    fed,            \* history: per id, the fragments fed for the current message
    somes,          \* history: per id, the number of accepts that returned Some
    reaped,         \* history: per id, the reaper removed its set and no accept followed
    listen_pc,      \* Receiver::listen: "recv" in the loop, "panicked" out of it
    n_datagrams,    \* history: number of datagrams read from the socket
    jobs,           \* closures handed to the TaskPool and not yet run
    handled,        \* the strings the handler was called with, in order
    last_job,       \* history: what the last pool task did
    n_errors,       \* history: number of tasks whose datagram did not unpack
    probe,          \* the last call of unpack_complete made on its own
    owned,          \* the caller of accept: the set its last call returned,
                    \* and what unpack returned if it was called on it
    msg_map,        \* message::ChunkAccumulator.map
    msg_poisoned,   \* the Mutex around msg_map is poisoned
    msg_tx,         \* signals sent on tx and not yet received by the reaper
    msg_acc_pc,     \* the thread calling message's accept: "idle", "panicked"
    eviction_lifo,  \* message's reaper: its queue of (id, first_arrival)
    msg_timeout,    \* message's reaper: when its oneshot timer fires
    msg_reaper_pc,  \* message's reaper: "start", "select", "lock", "done",
                    \* "failed", "panicked"
    msg_evict_id,   \* the id message's reaper popped and is about to remove
    msg_dropped,    \* Drop for message::ChunkAccumulator has sent Quit
    msg_result,     \* what the last call of message's accept returned
    msg_calls       \* history: number of calls of message's accept

accVars  == <<map, poisoned, chan, acc_pc, new_set, eviction_fifo, timeout,
              reaper_pc, evict_id, dropped, result, calls, fed, somes, reaped>>
recvVars == <<listen_pc, n_datagrams, jobs, handled, last_job, n_errors>>
pureVars == <<probe>>
callerVars == <<owned>>
msgVars  == <<msg_map, msg_poisoned, msg_tx, msg_acc_pc, eviction_lifo,
              msg_timeout, msg_reaper_pc, msg_evict_id, msg_dropped, msg_result,
              msg_calls>>
vars     == <<accVars, recvVars, pureVars, callerVars, msgVars>>

----------------------------------------------------------------------------
(* Bounds of the model.                                                    *)

MaxPackets == 3
MaxCount == 2
MaxLag == 1
MaxDelay == 2
MaxDatagrams == 3
MaxLen == 3
TicksPerSec == 2
\* the ticks that stand for the Duration::days(1000) of the idle timer of
\* message/chunk_accumulator.rs
IdleTicks == 3

(* Program constants.                                                      *)

ValiditySeconds == 5
MinChunkLen == 12

----------------------------------------------------------------------------
(* Option<T> is a sequence of length at most one.                          *)

None == <<>>
Some(x) == <<x>>

(* Bytes used on the wire.                                                 *)
IdBytes == {65, 66}
Id(b) == <<b, b, b, b, b, b, b, b>>
Ids == {Id(b) : b \in IdBytes}
Body(b, number) == <<b, 48 + number>>

ChunkPacket(b, number, count, payload) ==
    <<30, 15>> \o Id(b) \o <<number, count>> \o payload

----------------------------------------------------------------------------
(* message/chunk.rs                                                        *)

get_time == 0

from_packet(packet, arrival) ==
    IF Len(packet) > MinChunkLen
    THEN [ok |-> TRUE,
          chunk |-> Some([id |-> SubSeq(packet, 3, 10),
                          sequence_number |-> packet[11],
                          sequence_count |-> packet[12],
                          payload |-> SubSeq(packet, 13, Len(packet)),
                          arrival |-> arrival])]
    ELSE [ok |-> FALSE, chunk |-> None]

----------------------------------------------------------------------------
(* message/mod.rs                                                          *)

Ok(string) == [kind |-> "Complete", string |-> string, chunk |-> None]
Partial(chunk) == [kind |-> "Partial", string |-> <<>>, chunk |-> Some(chunk)]
Err(what) == [kind |-> what, string |-> <<>>, chunk |-> None]
IsErr(r) == r.kind \notin {"Complete", "Partial"}

(* str::from_utf8: the well-formed byte sequences of Unicode table 3-7.    *)
Cont(b) == b >= 128 /\ b <= 191

RECURSIVE ValidUtf8(_)
ValidUtf8(bytes) ==
    IF bytes = <<>> THEN TRUE
    ELSE LET b == bytes[1]
             n == Len(bytes)
             rest(k) == SubSeq(bytes, k + 1, n)
         IN CASE b <= 127 -> ValidUtf8(rest(1))
              [] b >= 194 /\ b <= 223 ->
                    n >= 2 /\ Cont(bytes[2]) /\ ValidUtf8(rest(2))
              [] b >= 224 /\ b <= 239 ->
                    /\ n >= 3 /\ Cont(bytes[2]) /\ Cont(bytes[3])
                    /\ (b = 224 => bytes[2] >= 160)
                    /\ (b = 237 => bytes[2] <= 159)
                    /\ ValidUtf8(rest(3))
              [] b >= 240 /\ b <= 244 ->
                    /\ n >= 4 /\ Cont(bytes[2]) /\ Cont(bytes[3]) /\ Cont(bytes[4])
                    /\ (b = 240 => bytes[2] >= 144)
                    /\ (b = 244 => bytes[2] <= 143)
                    /\ ValidUtf8(rest(4))
              [] OTHER -> FALSE

unpack_uncompressed(packet) ==
    IF ValidUtf8(packet) THEN Ok(packet) ELSE Err("InvalidUtf8")

(* The decoders of the flate2 crate, for streams of one stored block:      *)
(* 01 LEN(2, little endian) NLEN(2) data.  What follows the block is the   *)
(* container's trailer.                                                    *)
Stored(data) ==
    <<1, Len(data) % 256, Len(data) \div 256,
      255 - (Len(data) % 256), 255 - (Len(data) \div 256)>> \o data

Inflate(stream) ==
    IF Len(stream) < 5 \/ stream[1] # 1 THEN [ok |-> FALSE, data |-> <<>>, rest |-> <<>>]
    ELSE LET len == stream[2] + 256 * stream[3] IN
         IF stream[4] # 255 - stream[2] \/ stream[5] # 255 - stream[3]
            \/ Len(stream) < 5 + len
         THEN [ok |-> FALSE, data |-> <<>>, rest |-> <<>>]
         ELSE [ok |-> TRUE, data |-> SubSeq(stream, 6, 5 + len),
               rest |-> SubSeq(stream, 6 + len, Len(stream))]

RECURSIVE AdlerSums(_, _, _)
AdlerSums(data, a, b) ==
    IF data = <<>> THEN <<a, b>>
    ELSE LET a2 == (a + data[1]) % 65521
         IN AdlerSums(Tail(data), a2, (b + a2) % 65521)

Adler32(data) ==
    LET ab == AdlerSums(data, 1, 0)
    IN <<ab[2] \div 256, ab[2] % 256, ab[1] \div 256, ab[1] % 256>>

unpack_zlib(packet) ==
    LET r == Inflate(SubSeq(packet, 3, Len(packet))) IN
    IF packet[1] % 16 # 8 \/ (packet[2] \div 32) % 2 = 1 \/ ~r.ok
       \/ r.rest # Adler32(r.data)
    THEN Err("DecompressionError")
    ELSE IF ValidUtf8(r.data) THEN Ok(r.data) ELSE Err("InvalidUtf8")

(* A gzip branch that reads the packet with the zlib framing.               *)
unpack_gzip_zlib_framing(packet) == unpack_zlib(packet)

(* The gzip member: a 10-byte header with no optional fields, the deflate  *)
(* stream, CRC-32 and ISIZE.  The value of the CRC-32 is not modelled.     *)
GzipHeader == <<31, 139, 8, 0, 0, 0, 0, 0, 0, 255>>

unpack_gzip(packet) ==
    LET r == Inflate(SubSeq(packet, 11, Len(packet))) IN
    IF Len(packet) < 10 \/ SubSeq(packet, 1, 4) # SubSeq(GzipHeader, 1, 4) \/ ~r.ok
       \/ Len(r.rest) # 8 \/ r.rest[5] # Len(r.data) % 256
    THEN Err("DecompressionError")
    ELSE IF ValidUtf8(r.data) THEN Ok(r.data) ELSE Err("InvalidUtf8")

(* The check of src/lib.rs: only the header 78 01.                         *)
is_zlib_default(second_byte) == second_byte = 1

is_zlib(second_byte) == ((256 * 120 + second_byte) % 65536) % 31 = 0

unpack_complete(packet) ==
    CASE Len(packet) >= 2 /\ packet[1] = 31 /\ packet[2] = 139 -> unpack_gzip(packet)
      [] Len(packet) >= 2 /\ packet[1] = 120 /\ is_zlib(packet[2]) -> unpack_zlib(packet)
      [] Len(packet) >= 2 /\ ~(packet[1] = 31 /\ packet[2] = 139)
                          /\ ~(packet[1] = 120 /\ is_zlib(packet[2])) ->
            unpack_uncompressed(packet)
      [] OTHER -> Err("PacketTooShort")

(* An unpack without the chunk branch: every packet is a whole message.    *)
unpack_whole_only(packet) == unpack_complete(packet)

unpack(packet) ==
    IF Len(packet) >= 2 /\ packet[1] = 30 /\ packet[2] = 15
    THEN LET r == from_packet(packet, get_time)
         IN IF r.ok THEN Partial(r.chunk[1]) ELSE Err("ChunkTooShort")
    ELSE unpack_complete(packet)

----------------------------------------------------------------------------
(* receiver/chunk_accumulator.rs: ChunkSet                                 *)

Validity == ValiditySeconds * TicksPerSec

(* ChunkSet::new sized one slot too long.                                  *)
ChunkSet_new_extra_slot(chunk) ==
    [chunks |-> [i \in 1..(chunk.sequence_count + 1) |-> None],
     first_arrival |-> chunk.arrival,
     rcv_count |-> 0]

ChunkSet_new(chunk) ==
    [chunks |-> [i \in 1..chunk.sequence_count |-> None],
     first_arrival |-> chunk.arrival,
     rcv_count |-> 0]

(* `chunk.sequence_number as usize - 1`: for 0 the subtraction overflows   *)
(* (a panic in a checked build, usize::MAX otherwise, which no Vec         *)
(* indexes), and `self.chunks[number]` panics for number >= len.           *)
IndexPanics(set, chunk) ==
    \/ chunk.sequence_number = 0
    \/ chunk.sequence_number - 1 >= Len(set.chunks)

(* ChunkSet::accept without the `Some(_)` arm of its match: a filled slot   *)
(* is overwritten and counted again.                                       *)
ChunkSet_accept_counting(set, chunk) ==
    IF IndexPanics(set, chunk)
    THEN [state |-> "Panic", set |-> set]
    ELSE LET number == chunk.sequence_number - 1
             filled == [set EXCEPT !.chunks[number + 1] = Some(chunk),
                                   !.rcv_count = @ + 1]
         IN [state |-> IF filled.rcv_count = Len(filled.chunks)
                       THEN "Complete" ELSE "Partial",
             set |-> filled]

ChunkSet_accept(set, chunk) ==
    IF IndexPanics(set, chunk)
    THEN [state |-> "Panic", set |-> set]
    ELSE LET number == chunk.sequence_number - 1
         IN IF set.chunks[number + 1] = None
            THEN LET filled == [set EXCEPT !.chunks[number + 1] = Some(chunk),
                                           !.rcv_count = @ + 1]
                 IN [state |-> IF filled.rcv_count = Len(filled.chunks)
                               THEN "Complete" ELSE "Partial",
                     set |-> filled]
            ELSE [state |-> "Partial", set |-> set]

(* Duration::num_seconds: whole seconds, truncated toward zero.            *)
num_seconds(d) ==
    IF d >= 0 THEN d \div TicksPerSec ELSE 0 - ((0 - d) \div TicksPerSec)

expires_in(set) ==
    LET eviction_time == set.first_arrival + Validity
    IN num_seconds(eviction_time - get_time) * TicksPerSec

(* ChunkSet::unpack, lines 177-180: the payloads in slot order.            *)
RECURSIVE concat_payloads(_)
concat_payloads(chunks) ==
    IF chunks = <<>> THEN <<>>
    ELSE Head(chunks)[1].payload \o concat_payloads(Tail(chunks))

(* ChunkSet::unpack, lines 176-182: drain empties self.chunks; unwrap     *)
(* panics on an empty slot; the bytes go to unpack_complete.               *)
ChunkSet_unpack(set) ==
    LET drained == [set EXCEPT !.chunks = <<>>] IN
    IF \E i \in DOMAIN set.chunks : set.chunks[i] = None
    THEN [state |-> "Panic", bytes |-> <<>>, result |-> Err("Panic"),
          set |-> drained]
    ELSE [state |-> "Returned", bytes |-> concat_payloads(set.chunks),
          result |-> unpack_complete(concat_payloads(set.chunks)), set |-> drained]

----------------------------------------------------------------------------
(* The clock.                                                              *)

OldestKept == 0 - (Validity + MaxDelay + 1)

Older(t) == IF t > OldestKept THEN t - 1 ELSE OldestKept

OlderSet(set) ==
    [chunks |-> [i \in DOMAIN set.chunks |->
                    IF set.chunks[i] = None THEN None
                    ELSE Some([set.chunks[i][1] EXCEPT !.arrival = Older(@)])],
     first_arrival |-> Older(set.first_arrival),
     rcv_count |-> set.rcv_count]

----------------------------------------------------------------------------
(* receiver/chunk_accumulator.rs: ChunkAccumulator                         *)

EvictionEntry(id, d) == [tag |-> "EvictionEntry", id |-> id, expires_in |-> d]
Quit == [tag |-> "Quit", id |-> <<>>, expires_in |-> 0]

(* A table keyed by one constant instead of chunk.id.                      *)
KeyOfFirst(chunk) == Id(65)

(* `let id = chunk.id.clone()`, the key of every table operation.          *)
KeyOf(chunk) == chunk.id

(* A remove that leaves the table as it is.                                *)
MapKeep(m, id) == m

MapRemove(m, id) == [k \in DOMAIN m \ {id} |-> m[k]]

(* An insert that is lost.                                                 *)
MapInsertLost(m, id, set) == m

MapInsert(m, id, set) == [k \in DOMAIN m \cup {id} |-> IF k = id THEN set ELSE m[k]]

ReaperAlive == reaper_pc \in {"start", "select", "lock"}

(* timer.oneshot(expires_in) for the head of the queue, else never_rx.     *)
Never == [armed |-> FALSE, at |-> 0]

Arm(fifo) ==
    IF Len(fifo) > 0
    THEN [armed |-> TRUE, at |-> get_time + fifo[1][2]]
    ELSE Never

(* The chunks the wire can deliver: parsed by from_packet at most MaxLag   *)
(* ticks before accept is called with them.                                *)
SeqNumbers == 0..(MaxCount + 1)
SeqCounts == 0..MaxCount

WireChunks ==
    { from_packet(ChunkPacket(x[1], x[2], x[3], Body(x[1], x[2])), get_time - x[4]).chunk[1] :
        x \in IdBytes \X SeqNumbers \X SeqCounts \X (0..MaxLag) }

(* History: the fragments fed for this id since its last Some, the arrival *)
(* of the first of them, and whether one was fed after the validity of the *)
(* first had run out.                                                      *)
NoFed == [seqs |-> <<>>, first |-> 0, late |-> FALSE, closed |-> FALSE]

FedWith(chunk) ==
    LET old == fed[chunk.id]
        frag == <<chunk.sequence_number, chunk.sequence_count>>
    IN IF old.seqs = <<>> \/ old.closed
       THEN [seqs |-> <<frag>>, first |-> chunk.arrival, late |-> FALSE,
             closed |-> FALSE]
       ELSE [old EXCEPT !.seqs = Append(@, frag),
                        !.late = @ \/ get_time >= old.first + Validity]

(* History: the last accept call: its chunk, what it returned, and, as of  *)
(* the call, the length of the ChunkSet it went to, whether its slot was   *)
(* filled, whether the reaper had removed the id's set since the previous  *)
(* accept for that id, whether the id was absent from the table, and       *)
(* whether the reaper's end of the channel was gone.                       *)
Returned(kind, chunk, set, target) ==
    [kind |-> kind, chunk |-> Some(chunk), set |-> set,
     slots |-> Len(target.chunks),
     dup |-> ~IndexPanics(target, chunk)
             /\ target.chunks[chunk.sequence_number] # None,
     after_reap |-> reaped[chunk.id],
     fresh |-> chunk.id \notin DOMAIN map,
     reaper_gone |-> ~ReaperAlive]

(* What the caller of accept holds.                                        *)
Owned(set, out) == [set |-> set, out |-> out]
NoOwned == Owned(None, None)

(* accept, lines 49-73: from the lock to the return, or to the send.       *)
AcceptBegin(chunk) ==
    /\ acc_pc = "idle" /\ ~dropped /\ calls < MaxPackets
    /\ calls' = calls + 1
    /\ reaped' = [reaped EXCEPT ![chunk.id] = FALSE]
    /\ LET id == KeyOf(chunk) IN
       IF id \in DOMAIN map
       THEN LET r == ChunkSet_accept(map[id], chunk) IN
            /\ UNCHANGED <<chan, new_set>>
            /\ CASE r.state = "Panic" ->
                      /\ poisoned' = TRUE /\ acc_pc' = "panicked"
                      /\ result' = Returned("Panic", chunk, None, map[id])
                      /\ UNCHANGED <<map, fed, somes>>
                 [] r.state = "Complete" ->
                      /\ map' = MapRemove([map EXCEPT ![id] = r.set], id)
                      /\ result' = Returned("Some", chunk, Some(r.set), map[id])
                      /\ fed' = [fed EXCEPT ![chunk.id] =
                                    [FedWith(chunk) EXCEPT !.closed = TRUE]]
                      /\ somes' = [somes EXCEPT ![chunk.id] = @ + 1]
                      /\ UNCHANGED <<poisoned, acc_pc>>
                 [] r.state = "Partial" ->
                      /\ map' = [map EXCEPT ![id] = r.set]
                      /\ result' = Returned("None", chunk, None, map[id])
                      /\ fed' = [fed EXCEPT ![chunk.id] = FedWith(chunk)]
                      /\ UNCHANGED <<poisoned, acc_pc, somes>>
       ELSE LET r == ChunkSet_accept(ChunkSet_new(chunk), chunk) IN
            /\ UNCHANGED map
            /\ CASE r.state = "Panic" ->
                      /\ poisoned' = TRUE /\ acc_pc' = "panicked"
                      /\ result' = Returned("Panic", chunk, None, ChunkSet_new(chunk))
                      /\ UNCHANGED <<chan, new_set, fed, somes>>
                 [] r.state = "Complete" ->
                      /\ result' = Returned("Some", chunk, Some(r.set), ChunkSet_new(chunk))
                      /\ fed' = [fed EXCEPT ![chunk.id] =
                                    [FedWith(chunk) EXCEPT !.closed = TRUE]]
                      /\ somes' = [somes EXCEPT ![chunk.id] = @ + 1]
                      /\ UNCHANGED <<poisoned, acc_pc, chan, new_set>>
                 [] r.state = "Partial" /\ ReaperAlive ->
                      /\ chan' = Append(chan, EvictionEntry(id, expires_in(r.set)))
                      /\ new_set' = Some(<<id, r.set>>)
                      /\ acc_pc' = "insert"
                      /\ result' = Returned("Insert", chunk, None, ChunkSet_new(chunk))
                      /\ fed' = [fed EXCEPT ![chunk.id] = FedWith(chunk)]
                      /\ UNCHANGED <<poisoned, somes>>
                 [] r.state = "Partial" /\ ~ReaperAlive ->
                      \* send(..).ok().expect(..) panics with the lock held
                      /\ poisoned' = TRUE /\ acc_pc' = "panicked"
                      /\ result' = Returned("Panic", chunk, None, ChunkSet_new(chunk))
                      /\ UNCHANGED <<chan, new_set, fed, somes>>
    /\ owned' = LET id == KeyOf(chunk)
                    r == ChunkSet_accept(IF id \in DOMAIN map THEN map[id]
                                         ELSE ChunkSet_new(chunk), chunk)
                IN IF r.state = "Complete" THEN Owned(Some(r.set), None)
                   ELSE NoOwned
    /\ UNCHANGED <<eviction_fifo, timeout, reaper_pc, evict_id, dropped>>
    /\ UNCHANGED recvVars
    /\ UNCHANGED pureVars
    /\ UNCHANGED msgVars

(* accept, lines 74-75: insert, return Ok(None), release the lock.         *)
AcceptFinish ==
    /\ acc_pc = "insert"
    /\ map' = MapInsert(map, new_set[1][1], new_set[1][2])
    /\ new_set' = None
    /\ acc_pc' = "idle"
    /\ result' = [result EXCEPT !.kind = "None"]
    /\ UNCHANGED <<poisoned, chan, eviction_fifo, timeout, reaper_pc, evict_id,
                   dropped, calls, fed, somes, reaped>>
    /\ UNCHANGED recvVars
    /\ UNCHANGED pureVars
    /\ UNCHANGED msgVars
    /\ UNCHANGED callerVars

Accept == \E chunk \in WireChunks : AcceptBegin(chunk)

(* The caller of accept calls unpack on the set it was given, before its   *)
(* next call of accept.                                                    *)
Unpack ==
    /\ owned.set # None
    /\ LET r == ChunkSet_unpack(owned.set[1]) IN
       owned' = Owned(Some(r.set), Some([state |-> r.state, bytes |-> r.bytes,
                                         result |-> r.result]))
    /\ UNCHANGED <<accVars, recvVars, pureVars, msgVars>>

(* reaper, lines 81-90: the locals are set up and the loop is entered.     *)
ReaperStart ==
    /\ reaper_pc = "start"
    /\ reaper_pc' = "select"
    /\ UNCHANGED <<map, poisoned, chan, acc_pc, new_set, eviction_fifo, timeout,
                   evict_id, dropped, result, calls, fed, somes, reaped>>
    /\ UNCHANGED recvVars
    /\ UNCHANGED pureVars
    /\ UNCHANGED msgVars
    /\ UNCHANGED callerVars

(* reaper, line 82: Timer::new() fails and the unwrap panics; rx is        *)
(* dropped with whatever was sent on it.                                   *)
ReaperStartFails ==
    /\ reaper_pc = "start"
    /\ reaper_pc' = "failed"
    /\ chan' = <<>>
    /\ UNCHANGED <<map, poisoned, acc_pc, new_set, eviction_fifo, timeout,
                   evict_id, dropped, result, calls, fed, somes, reaped>>
    /\ UNCHANGED recvVars
    /\ UNCHANGED pureVars
    /\ UNCHANGED msgVars
    /\ UNCHANGED callerVars

(* reaper, lines 100-103: a signal is received.                            *)
ReaperRecv ==
    /\ reaper_pc = "select" /\ chan # <<>>
    /\ chan' = Tail(chan)
    /\ IF Head(chan).tag = "Quit"
       THEN /\ reaper_pc' = "done"
            /\ timeout' = Never
            /\ UNCHANGED eviction_fifo
       ELSE /\ eviction_fifo' = Append(eviction_fifo,
                                       <<Head(chan).id, Head(chan).expires_in>>)
            /\ timeout' = Arm(eviction_fifo')
            /\ UNCHANGED reaper_pc
    /\ UNCHANGED <<map, poisoned, acc_pc, new_set, evict_id, dropped, result,
                   calls, fed, somes, reaped>>
    /\ UNCHANGED recvVars
    /\ UNCHANGED pureVars
    /\ UNCHANGED msgVars
    /\ UNCHANGED callerVars

(* reaper, lines 104-105: the timer fires, the head is popped.             *)
ReaperTimeout ==
    /\ reaper_pc = "select" /\ timeout.armed /\ get_time >= timeout.at
    /\ evict_id' = Some(eviction_fifo[1][1])
    /\ eviction_fifo' = Tail(eviction_fifo)
    /\ reaper_pc' = "lock"
    /\ timeout' = Never
    /\ UNCHANGED <<map, poisoned, chan, acc_pc, new_set, dropped,
                   result, calls, fed, somes, reaped>>
    /\ UNCHANGED recvVars
    /\ UNCHANGED pureVars
    /\ UNCHANGED msgVars
    /\ UNCHANGED callerVars

(* reaper, lines 106-107 and back to 93-98: lock, remove, re-arm.          *)
ReaperRemove ==
    /\ reaper_pc = "lock" /\ acc_pc # "insert"
    /\ evict_id' = None
    /\ IF poisoned
       THEN \* map_mutex.lock().unwrap() on a poisoned mutex
            /\ reaper_pc' = "panicked"
            /\ chan' = <<>>
            /\ UNCHANGED <<map, timeout, reaped>>
       ELSE /\ map' = MapRemove(map, evict_id[1])
            /\ reaped' = [id \in Ids |->
                            reaped[id] \/ (id = evict_id[1] /\ id \in DOMAIN map)]
            /\ timeout' = Arm(eviction_fifo)
            /\ reaper_pc' = "select"
            /\ UNCHANGED chan
    /\ UNCHANGED <<poisoned, acc_pc, new_set, eviction_fifo, dropped, result, calls,
                   fed, somes>>
    /\ UNCHANGED recvVars
    /\ UNCHANGED pureVars
    /\ UNCHANGED msgVars
    /\ UNCHANGED callerVars

(* Drop for ChunkAccumulator, lines 119-123: send Quit, then join.         *)
Drop ==
    /\ ~dropped /\ acc_pc \in {"idle", "panicked"}
    /\ dropped' = TRUE
    /\ chan' = IF ReaperAlive THEN Append(chan, Quit) ELSE chan
    /\ UNCHANGED <<map, poisoned, acc_pc, new_set, eviction_fifo, timeout,
                   reaper_pc, evict_id, result, calls, fed, somes, reaped>>
    /\ UNCHANGED recvVars
    /\ UNCHANGED pureVars
    /\ UNCHANGED msgVars
    /\ UNCHANGED callerVars

Joined == dropped /\ ~ReaperAlive

(* The reaper thread has a step it can take now.                           *)
ReaperReady ==
    \/ reaper_pc = "start"
    \/ reaper_pc = "select" /\ chan # <<>>
    \/ reaper_pc = "select" /\ timeout.armed /\ get_time >= timeout.at
    \/ reaper_pc = "lock" /\ acc_pc # "insert"

(* The clock advances by one tick, while no thread is runnable.            *)
Tick ==
    /\ acc_pc # "insert" /\ ~ReaperReady
    /\ map' = [id \in DOMAIN map |-> OlderSet(map[id])]
    /\ timeout' = IF timeout.armed THEN [timeout EXCEPT !.at = @ - 1] ELSE timeout
    /\ fed' = [id \in Ids |->
                 IF fed[id].seqs = <<>> \/ fed[id].first + Validity <= get_time
                 THEN fed[id] ELSE [fed[id] EXCEPT !.first = @ - 1]]
    /\ UNCHANGED <<poisoned, chan, acc_pc, new_set, eviction_fifo,
                   reaper_pc, evict_id, dropped, result, calls, somes, reaped>>
    /\ UNCHANGED recvVars
    /\ UNCHANGED pureVars
    /\ UNCHANGED msgVars
    /\ UNCHANGED callerVars

NoResult ==
    [kind |-> "Init", chunk |-> None, set |-> None, slots |-> 0, dup |-> FALSE,
     after_reap |-> FALSE, fresh |-> FALSE, reaper_gone |-> FALSE]
AccInit ==
    /\ map = <<>>
    /\ poisoned = FALSE
    /\ chan = <<>>
    /\ acc_pc = "idle"
    /\ new_set = None
    /\ eviction_fifo = <<>>
    /\ timeout = Never
    /\ reaper_pc = "start"
    /\ evict_id = None
    /\ dropped = FALSE
    /\ result = NoResult
    /\ calls = 0
    /\ fed = [id \in Ids |-> NoFed]
    /\ somes = [id \in Ids |-> 0]
    /\ reaped = [id \in Ids |-> FALSE]

----------------------------------------------------------------------------
(* receiver/mod.rs: Receiver::listen                                       *)

BufLen == 1432

Prefixes(packet) == { SubSeq(packet, 1, n) : n \in {0, 1, 2, 11, 12, 13, 14} }

(* The datagrams the socket can deliver.                                   *)
Datagrams ==
    Prefixes(ChunkPacket(65, 1, 1, Body(65, 1)))
    \cup { <<15>>, <<65, 49>>, <<123, 226, 156, 147, 125>>, <<65, 255>>, <<120, 65>>,
           <<30, 65>>, <<31, 65>>,
           <<120, 1>> \o Stored(<<65, 49>>) \o Adler32(<<65, 49>>),
           <<120, 156>> \o Stored(<<65, 49>>) \o <<0, 0, 0, 0>>,
           GzipHeader \o Stored(<<65, 49>>) \o <<0, 0, 0, 0, 2, 0, 0, 0>>,
           GzipHeader \o <<7, 7>> }

NoJob == [packet |-> <<>>, outcome |-> "Init", unpacked |-> Err("Init")]

(* listen, lines 28-33: one datagram is read and handed to the pool.       *)
RecvFrom(datagram) ==
    /\ listen_pc = "recv" /\ n_datagrams < MaxDatagrams
    /\ LET n_read == IF Len(datagram) < BufLen THEN Len(datagram) ELSE BufLen
       IN jobs' = Append(jobs, SubSeq(datagram, 1, n_read))
    /\ n_datagrams' = n_datagrams + 1
    /\ UNCHANGED <<listen_pc, handled, last_job, n_errors>>
    /\ UNCHANGED accVars
    /\ UNCHANGED pureVars
    /\ UNCHANGED msgVars
    /\ UNCHANGED callerVars

(* listen, line 42: the socket reports an error.                           *)
RecvError ==
    /\ listen_pc = "recv"
    /\ listen_pc' = "panicked"
    /\ UNCHANGED <<n_datagrams, jobs, handled, last_job, n_errors>>
    /\ UNCHANGED accVars
    /\ UNCHANGED pureVars
    /\ UNCHANGED msgVars
    /\ UNCHANGED callerVars

(* listen, lines 33-40: a pool thread runs one closure.                    *)
PoolTask(i) ==
    /\ i \in DOMAIN jobs
    /\ LET packet == jobs[i]
           r == unpack(packet)
       IN /\ jobs' = SubSeq(jobs, 1, i - 1) \o SubSeq(jobs, i + 1, Len(jobs))
          /\ CASE IsErr(r) ->          \* unpack(packet).unwrap() panics
                    /\ last_job' = [packet |-> packet, outcome |-> "UnwrapPanic",
                                    unpacked |-> r]
                    /\ n_errors' = n_errors + 1
                    /\ UNCHANGED handled
               [] r.kind = "Partial" ->  \* assert!(false, ..) panics
                    /\ last_job' = [packet |-> packet, outcome |-> "AssertPanic",
                                    unpacked |-> r]
                    /\ UNCHANGED <<handled, n_errors>>
               [] r.kind = "Complete" -> \* handler.call(s)
                    /\ last_job' = [packet |-> packet, outcome |-> "Handled",
                                    unpacked |-> r]
                    /\ handled' = Append(handled, r.string)
                    /\ UNCHANGED n_errors
    /\ UNCHANGED <<listen_pc, n_datagrams>>
    /\ UNCHANGED accVars
    /\ UNCHANGED pureVars
    /\ UNCHANGED msgVars
    /\ UNCHANGED callerVars

RecvInit ==
    /\ listen_pc = "recv"
    /\ n_datagrams = 0
    /\ jobs = <<>>
    /\ handled = <<>>
    /\ last_job = NoJob
    /\ n_errors = 0

----------------------------------------------------------------------------
(* message/mod.rs: unpack_complete called on its own, on what the encoders *)
(* of the tests (lines 84-86 and 98-100) write.                            *)

zlib_encode(data) == <<120, 156>> \o Stored(data) \o Adler32(data)

gzip_encode(data) ==
    GzipHeader \o Stored(data) \o <<0, 0, 0, 0>>
               \o <<Len(data) % 256, Len(data) \div 256, 0, 0>>

ProbeBytes == {65, 195, 169, 255}
ByteStrings == UNION { [1..n -> ProbeBytes] : n \in 0..MaxLen }

Probed(op, input, packet) ==
    [op |-> op, input |-> input, packet |-> packet,
     output |-> unpack_complete(packet)]

(* A zlib stream of "A1" whose second header byte is y.                    *)
ProbeHeader(y) ==
    /\ probe' = Probed("header", <<y>>,
                        <<120, y>> \o Stored(<<65, 49>>) \o Adler32(<<65, 49>>))
    /\ UNCHANGED <<accVars, recvVars, callerVars, msgVars>>

ProbeZlib(data) ==
    /\ probe' = Probed("zlib", data, zlib_encode(data))
    /\ UNCHANGED <<accVars, recvVars, callerVars, msgVars>>

ProbeGzip(data) ==
    /\ probe' = Probed("gzip", data, gzip_encode(data))
    /\ UNCHANGED <<accVars, recvVars, callerVars, msgVars>>

PureInit == probe = [op |-> "none", input |-> <<>>, packet |-> <<>>,
                     output |-> Err("Init")]

----------------------------------------------------------------------------
(* message/chunk_accumulator.rs: the ChunkAccumulator of the message       *)
(* module.  Its accept unpacks a complete set itself and leaves it in the  *)
(* table; its eviction entries carry the arrival time of the set; its      *)
(* reaper arms a timer of 1000 days while its queue is empty.              *)

MsgReaperAlive == msg_reaper_pc \in {"start", "select", "lock"}

(* ChunkSet::accept with complete_or_none, lines 111-144.                  *)
MsgChunkSet_accept(set, chunk) ==
    LET r == ChunkSet_accept(set, chunk) IN
    [state |-> r.state, set |-> r.set,
     out |-> IF r.state = "Complete"
             THEN unpack_complete(concat_payloads(r.set.chunks))
             ELSE Err("None")]

(* What accept returned: Ok(None), Ok(Some(string)), Err(e), or a panic.   *)
MsgReturned(kind, string) == [kind |-> kind, string |-> string]

MsgOutcome(r) ==
    CASE r.state = "Partial" -> MsgReturned("None", <<>>)
      [] r.state = "Complete" /\ IsErr(r.out) -> MsgReturned(r.out.kind, <<>>)
      [] r.state = "Complete" /\ ~IsErr(r.out) -> MsgReturned("String", r.out.string)
      [] OTHER -> MsgReturned("Panic", <<>>)

(* The timer of lines 40-48: for the head of the queue it fires at         *)
(* first_arrival + validity, for an empty queue after 1000 days.           *)
MsgArm(lifo) ==
    IF Len(lifo) > 0
    THEN lifo[1][2] + Validity
    ELSE get_time + IdleTicks

(* accept, lines 69-85.  The lock is held from line 71 to the return; the  *)
(* send of line 78 does not wait for the reaper and its result is unused.  *)
MsgAccept(chunk) ==
    /\ msg_acc_pc = "idle" /\ ~msg_dropped /\ msg_calls < MaxPackets
    /\ msg_calls' = msg_calls + 1
    /\ LET id == chunk.id
           known == id \in DOMAIN msg_map
           r == MsgChunkSet_accept(IF known THEN msg_map[id] ELSE ChunkSet_new(chunk),
                                   chunk)
       IN /\ msg_result' = MsgOutcome(r)
          /\ IF r.state = "Panic"
             THEN /\ msg_poisoned' = TRUE /\ msg_acc_pc' = "panicked"
                  /\ UNCHANGED <<msg_map, msg_tx>>
             ELSE /\ UNCHANGED <<msg_poisoned, msg_acc_pc>>
                  /\ msg_map' = IF known \/ r.state = "Partial"
                                THEN MapInsert(msg_map, id, r.set)
                                ELSE msg_map
                  /\ msg_tx' = IF ~known /\ r.state = "Partial" /\ MsgReaperAlive
                               THEN Append(msg_tx, [tag |-> "EvictionEntry", id |-> id,
                                                    arrival |-> r.set.first_arrival])
                               ELSE msg_tx
    /\ UNCHANGED <<eviction_lifo, msg_timeout, msg_reaper_pc, msg_evict_id,
                   msg_dropped>>
    /\ UNCHANGED <<accVars, recvVars, pureVars, callerVars>>

(* The reaper closure, lines 35-37.                                        *)
MsgReaperStart ==
    /\ msg_reaper_pc = "start"
    /\ msg_reaper_pc' = "select"
    /\ msg_timeout' = MsgArm(eviction_lifo)
    /\ UNCHANGED <<msg_map, msg_poisoned, msg_tx, msg_acc_pc, eviction_lifo,
                   msg_evict_id, msg_dropped, msg_result, msg_calls>>
    /\ UNCHANGED <<accVars, recvVars, pureVars, callerVars>>

(* Line 36: Timer::new() fails and the unwrap panics.                      *)
MsgReaperStartFails ==
    /\ msg_reaper_pc = "start"
    /\ msg_reaper_pc' = "failed"
    /\ msg_tx' = <<>>
    /\ UNCHANGED <<msg_map, msg_poisoned, msg_acc_pc, eviction_lifo, msg_timeout,
                   msg_evict_id, msg_dropped, msg_result, msg_calls>>
    /\ UNCHANGED <<accVars, recvVars, pureVars, callerVars>>

(* Lines 50-55 and back to 40-48: a signal is received, the timer re-armed. *)
MsgReaperRecv ==
    /\ msg_reaper_pc = "select" /\ msg_tx # <<>>
    /\ msg_tx' = Tail(msg_tx)
    /\ IF Head(msg_tx).tag = "Quit"
       THEN /\ msg_reaper_pc' = "done"
            /\ UNCHANGED <<eviction_lifo, msg_timeout>>
       ELSE /\ eviction_lifo' = Append(eviction_lifo,
                                       <<Head(msg_tx).id, Head(msg_tx).arrival>>)
            /\ msg_timeout' = MsgArm(eviction_lifo')
            /\ UNCHANGED msg_reaper_pc
    /\ UNCHANGED <<msg_map, msg_poisoned, msg_acc_pc, msg_evict_id, msg_dropped,
                   msg_result, msg_calls>>
    /\ UNCHANGED <<accVars, recvVars, pureVars, callerVars>>

(* Lines 56-57: the timer fires; eviction_lifo.remove(0) panics on an      *)
(* empty Vec.                                                              *)
MsgReaperTimeout ==
    /\ msg_reaper_pc = "select" /\ get_time >= msg_timeout
    /\ IF eviction_lifo = <<>>
       THEN /\ msg_reaper_pc' = "panicked"
            /\ msg_tx' = <<>>
            /\ UNCHANGED <<eviction_lifo, msg_evict_id>>
       ELSE /\ msg_evict_id' = Some(eviction_lifo[1][1])
            /\ eviction_lifo' = Tail(eviction_lifo)
            /\ msg_reaper_pc' = "lock"
            /\ UNCHANGED msg_tx
    /\ UNCHANGED <<msg_map, msg_poisoned, msg_acc_pc, msg_timeout, msg_dropped,
                   msg_result, msg_calls>>
    /\ UNCHANGED <<accVars, recvVars, pureVars, callerVars>>

(* Lines 58-60 and back to 40-48: lock, remove, unlock, re-arm.            *)
MsgReaperRemove ==
    /\ msg_reaper_pc = "lock"
    /\ msg_evict_id' = None
    /\ IF msg_poisoned
       THEN /\ msg_reaper_pc' = "panicked"
            /\ msg_tx' = <<>>
            /\ UNCHANGED <<msg_map, msg_timeout>>
       ELSE /\ msg_map' = MapRemove(msg_map, msg_evict_id[1])
            /\ msg_timeout' = MsgArm(eviction_lifo)
            /\ msg_reaper_pc' = "select"
            /\ UNCHANGED msg_tx
    /\ UNCHANGED <<msg_poisoned, msg_acc_pc, eviction_lifo, msg_dropped, msg_result,
                   msg_calls>>
    /\ UNCHANGED <<accVars, recvVars, pureVars, callerVars>>

(* Drop, lines 89-94: send Quit, then join.                                *)
MsgDrop ==
    /\ ~msg_dropped
    /\ msg_dropped' = TRUE
    /\ msg_tx' = IF MsgReaperAlive THEN Append(msg_tx, [tag |-> "Quit", id |-> <<>>,
                                                       arrival |-> 0])
                 ELSE msg_tx
    /\ UNCHANGED <<msg_map, msg_poisoned, msg_acc_pc, eviction_lifo, msg_timeout,
                   msg_reaper_pc, msg_evict_id, msg_result, msg_calls>>
    /\ UNCHANGED <<accVars, recvVars, pureVars, callerVars>>

MsgReaperReady ==
    \/ msg_reaper_pc = "start"
    \/ msg_reaper_pc = "select" /\ msg_tx # <<>>
    \/ msg_reaper_pc = "select" /\ get_time >= msg_timeout
    \/ msg_reaper_pc = "lock"

(* The clock advances by one tick, while the reaper has nothing to do; the *)
(* channel is then empty, so no entry in flight has a timestamp to age.    *)
MsgTick ==
    /\ ~MsgReaperReady
    /\ msg_map' = [id \in DOMAIN msg_map |-> OlderSet(msg_map[id])]
    /\ eviction_lifo' = [i \in DOMAIN eviction_lifo |->
                            <<eviction_lifo[i][1], Older(eviction_lifo[i][2])>>]
    /\ msg_timeout' = IF msg_timeout > get_time THEN msg_timeout - 1 ELSE msg_timeout
    /\ UNCHANGED <<msg_poisoned, msg_tx, msg_acc_pc, msg_reaper_pc, msg_evict_id,
                   msg_dropped, msg_result, msg_calls>>
    /\ UNCHANGED <<accVars, recvVars, pureVars, callerVars>>

MsgInit ==
    /\ msg_map = <<>>
    /\ msg_poisoned = FALSE
    /\ msg_tx = <<>>
    /\ msg_acc_pc = "idle"
    /\ eviction_lifo = <<>>
    /\ msg_timeout = get_time
    /\ msg_reaper_pc = "start"
    /\ msg_evict_id = None
    /\ msg_dropped = FALSE
    /\ msg_result = MsgReturned("Init", <<>>)
    /\ msg_calls = 0

CallerInit == owned = NoOwned

Init == AccInit /\ RecvInit /\ PureInit /\ CallerInit /\ MsgInit

Next ==
    \/ Accept
    \/ AcceptFinish
    \/ Unpack
    \/ ReaperStart
    \/ ReaperStartFails
    \/ ReaperRecv
    \/ ReaperTimeout
    \/ ReaperRemove
    \/ Drop
    \/ Tick

Spec == Init /\ [][Next]_vars

(* A thread that can take a step is scheduled: the acceptor between its   *)
(* send and its insert, and the reaper at its lock.                        *)
SpecLive ==
    /\ Spec
    /\ WF_vars(AcceptFinish)
    /\ WF_vars(ReaperRemove)

RecvNext ==
    \/ \E datagram \in Datagrams : RecvFrom(datagram)
    \/ RecvError
    \/ \E i \in 1..MaxDatagrams : PoolTask(i)

SpecRecv == Init /\ [][RecvNext]_vars

CodecNext ==
    \/ \E y \in 0..255 : ProbeHeader(y)
    \/ \E data \in ByteStrings : ProbeZlib(data)
    \/ \E data \in ByteStrings : ProbeGzip(data)

SpecCodec == Init /\ [][CodecNext]_vars

MsgNext ==
    \/ \E chunk \in WireChunks : MsgAccept(chunk)
    \/ MsgReaperStart
    \/ MsgReaperStartFails
    \/ MsgReaperRecv
    \/ MsgReaperTimeout
    \/ MsgReaperRemove
    \/ MsgDrop
    \/ MsgTick

SpecMsg == Init /\ [][MsgNext]_vars

----------------------------------------------------------------------------
(* Properties.                                                             *)

(* Whether the step is a call of accept, and the chunk it is called with.  *)
IsAcceptCall == calls' = calls + 1
IsAcceptInsert == acc_pc = "insert" /\ acc_pc' = "idle"

(* The wire message of id byte b split into n fragments.                   *)
RECURSIVE Message(_, _)
Message(b, n) == IF n = 0 THEN <<>> ELSE Message(b, n - 1) \o Body(b, n)

(* A history is the feeding of one message: every fragment declares the    *)
(* same count n >= 1, numbers are in 1..n and none is repeated, and every  *)
(* fragment was fed before first arrival + validity.                       *)
OneMessage(h) ==
    /\ h.seqs # <<>> /\ ~h.late
    /\ h.seqs[1][2] >= 1
    /\ \A i \in DOMAIN h.seqs :
          /\ h.seqs[i][2] = h.seqs[1][2]
          /\ h.seqs[i][1] \in 1..h.seqs[1][2]
          /\ \A j \in DOMAIN h.seqs : i # j => h.seqs[i][1] # h.seqs[j][1]

(* C1: for the fragments 1..n of one message fed in any order within the   *)
(* validity of the first, accept returns None for the first n-1 and the    *)
(* complete set for the n-th, and the set's payloads, concatenated in slot *)
(* order, are the message in sequence-number order.                        *)
C1_PermutationCompletes ==
    result.kind \in {"None", "Some"} =>
        LET c == result.chunk[1]
            h == fed[c.id]
        IN OneMessage(h) =>
             /\ (result.kind = "Some") <=> (Len(h.seqs) = c.sequence_count)
             /\ result.kind = "Some" =>
                  concat_payloads(result.set[1].chunks)
                      = Message(c.id[1], c.sequence_count)

(* The accept call with chunk c fills the last empty slot of the set it    *)
(* goes to: the set stored under c.id, or a new one.                       *)
FillsLastSlot(c) ==
    LET target == IF c.id \in DOMAIN map THEN map[c.id] ELSE ChunkSet_new(c)
    IN /\ ~IndexPanics(target, c)
       /\ \A i \in DOMAIN target.chunks :
             (target.chunks[i] = None) <=> (i = c.sequence_number)

(* C2: an accept for one id leaves every other id's entry of the table as  *)
(* it is, a returned set holds only chunks of the id accepted, and accept  *)
(* returns Some exactly when the chunk fills the last empty slot of its    *)
(* id's set.                                                               *)
C2_IdsAreIndependent ==
    [][(IsAcceptCall \/ IsAcceptInsert) =>
          LET c == result'.chunk[1] IN
          /\ \A b \in Ids \ {c.id} :
                /\ (b \in DOMAIN map') <=> (b \in DOMAIN map)
                /\ b \in DOMAIN map => map'[b] = map[b]
          /\ result'.kind = "Some" =>
                \A i \in DOMAIN result'.set[1].chunks :
                    /\ result'.set[1].chunks[i] # None
                    /\ result'.set[1].chunks[i][1].id = c.id
          /\ IsAcceptCall => ((result'.kind = "Some") <=> FillsLastSlot(c))]_vars

C2_CompletesBesideOtherId ==
    /\ result.kind = "Some"
    /\ Len(result.set[1].chunks) = 2
    /\ \E b \in DOMAIN map : b # result.chunk[1].id /\ map[b].rcv_count = 1

(* C3, as claimed: no id ever has two accept calls that return Some.       *)
C3_CompleteOncePerId == \A id \in Ids : somes[id] <= 1

(* C3, amended: accept returns Some only when every slot of the returned   *)
(* set was fed since the previous Some for that id (or since the start).   *)
C3_SomeNeedsEveryFragmentAgain ==
    result.kind = "Some" =>
        LET h == fed[result.chunk[1].id]
        IN 1..Len(result.set[1].chunks) \subseteq { h.seqs[i][1] : i \in DOMAIN h.seqs }

C3_SecondComplete ==
    /\ result.kind = "Some"
    /\ somes[result.chunk[1].id] = 2

(* C4: while Quit has not been sent, a set in the table is never older     *)
(* than validity + MaxDelay.                                               *)
C4_ExpiredSetIsRemovedInTime ==
    (ReaperAlive /\ ~dropped /\ ~poisoned) =>
        \A id \in DOMAIN map : get_time <= map[id].first_arrival + Validity + MaxDelay

(* The ChunkSet that holds the one fragment c and nothing else.            *)
FreshSet(c) ==
    [chunks |-> [i \in 1..c.sequence_count |->
                    IF i = c.sequence_number THEN Some(c) ELSE None],
     first_arrival |-> c.arrival,
     rcv_count |-> 1]

(* C5: the first accept for an id after the reaper removed its set starts  *)
(* from nothing: a fragment of a message of two or more chunks is put in a *)
(* fresh set holding it alone, an EvictionEntry for the id is sent, the    *)
(* fresh set is inserted and accept returns None; if accept returns Some,  *)
(* the set is that one fragment of a single-chunk message.                 *)
C5_FreshSetAfterEviction ==
    [][LET c == result'.chunk[1] IN
       /\ (IsAcceptCall /\ reaped[c.id] /\ c.sequence_count >= 2
              /\ c.sequence_number \in 1..c.sequence_count) =>
             /\ result'.kind = "Insert"
             /\ new_set' = Some(<<c.id, FreshSet(c)>>)
             /\ Len(chan') = Len(chan) + 1
             /\ chan'[Len(chan')].tag = "EvictionEntry"
             /\ chan'[Len(chan')].id = c.id
             /\ map' = map
       /\ (IsAcceptCall /\ reaped[c.id] /\ result'.kind = "Some") =>
             /\ c.sequence_count = 1
             /\ result'.set[1] = FreshSet(c)
       /\ (IsAcceptInsert /\ result.after_reap) =>
             /\ result'.kind = "None"
             /\ map'[c.id] = FreshSet(c)]_vars

C5_SecondFragmentAfterEviction ==
    /\ result.kind = "None" /\ result.after_reap
    /\ result.chunk[1].sequence_number = 2
    /\ result.chunk[1].id \in DOMAIN map
    /\ map[result.chunk[1].id].rcv_count = 1

(* C6: accept of a fragment whose slot in its id's set is filled returns   *)
(* None and changes neither the table (so no slot, rcv_count or            *)
(* first_arrival) nor the signal channel nor the eviction queue, and does  *)
(* not panic.                                                              *)
C6_DuplicateIsDropped ==
    [][LET c == result'.chunk[1] IN
       (/\ IsAcceptCall
        /\ c.id \in DOMAIN map
        /\ c.sequence_number \in 1..Len(map[c.id].chunks)
        /\ map[c.id].chunks[c.sequence_number] # None) =>
            /\ result'.kind = "None"
            /\ map' = map
            /\ chan' = chan
            /\ eviction_fifo' = eviction_fifo
            /\ poisoned' = poisoned
            /\ acc_pc' = "idle"]_vars

C6_DuplicateAccepted ==
    /\ result.dup /\ result.kind = "None"
    /\ result.chunk[1].id \in DOMAIN map

(* C7: accept of a chunk whose sequence_number is outside 1..=slots.len()  *)
(* returns a SequenceOutOfRange error and leaves the accumulator usable.   *)
C7_OutOfRangeIsReturnedAsError ==
    (result.chunk # None /\ result.chunk[1].sequence_number \notin 1..result.slots) =>
        /\ result.kind = "SequenceOutOfRange"
        /\ ~poisoned
        /\ acc_pc = "idle"

(* The datagram of the last pool task starts with the chunk magic.         *)
IsChunkDatagram(packet) == Len(packet) >= 2 /\ packet[1] = 30 /\ packet[2] = 15

(* C8: a datagram that classifies as Complete is handed to the handler,    *)
(* and one that classifies as Partial is handed to the accumulator.        *)
C8_PartialGoesToAccumulator ==
    /\ last_job.unpacked.kind = "Complete" =>
          /\ last_job.outcome = "Handled"
          /\ handled # <<>> /\ handled[Len(handled)] = last_job.unpacked.string
    /\ last_job.unpacked.kind = "Partial" => last_job.outcome = "Accepted"

(* C9: after a datagram failed to unpack, a datagram that unpacks is still *)
(* processed: its task does not panic.                                     *)
C9_LaterDatagramsAreProcessed ==
    (n_errors > 0 /\ ~IsErr(last_job.unpacked)) =>
        last_job.outcome \in {"Handled", "Accepted"}

(* C10: a packet with the chunk magic fails to parse exactly when it is    *)
(* shorter than 12 bytes, and otherwise parses to id = bytes 2..10,        *)
(* sequence_number = byte 10, sequence_count = byte 11, payload = the rest.*)
C10_FromPacketNeedsTwelveBytes ==
    (last_job.outcome # "Init" /\ IsChunkDatagram(last_job.packet)) =>
        LET packet == last_job.packet
            r == last_job.unpacked
        IN /\ (r.kind = "ChunkTooShort") <=> (Len(packet) < MinChunkLen)
           /\ Len(packet) >= MinChunkLen =>
                 /\ r.kind = "Partial"
                 /\ r.chunk[1].id = SubSeq(packet, 3, 10)
                 /\ r.chunk[1].sequence_number = packet[11]
                 /\ r.chunk[1].sequence_count = packet[12]
                 /\ r.chunk[1].payload = SubSeq(packet, 13, Len(packet))

(* C11: unpack dispatches on the leading bytes: fewer than 2 bytes is a    *)
(* PacketTooShort error, 1e 0f goes to the chunk parser, 1f 8b to gzip,    *)
(* 78 y with (0x7800 + y) mod 31 = 0 to zlib, and any other packet is      *)
(* returned as Complete(packet) when it is valid UTF-8 and is an error     *)
(* otherwise.                                                              *)
C11_UnpackDispatch ==
    last_job.outcome # "Init" =>
        LET packet == last_job.packet
            r == last_job.unpacked
            chunked == IsChunkDatagram(packet)
            gzip == Len(packet) >= 2 /\ packet[1] = 31 /\ packet[2] = 139
            zlib == Len(packet) >= 2 /\ packet[1] = 120
                                     /\ (30720 + packet[2]) % 31 = 0
        IN /\ Len(packet) < 2 => r.kind = "PacketTooShort"
           /\ chunked => r.kind \in {"Partial", "ChunkTooShort"}
           /\ gzip => r = unpack_gzip(packet)
           /\ zlib => r = unpack_zlib(packet)
           /\ (Len(packet) >= 2 /\ ~chunked /\ ~gzip /\ ~zlib) =>
                 r = IF ValidUtf8(packet) THEN Ok(packet) ELSE Err("InvalidUtf8")

C11_NearMagicReturnedAsIs ==
    /\ last_job.outcome = "Handled"
    /\ last_job.packet \in {<<120, 65>>, <<30, 65>>, <<31, 65>>}
    /\ handled[Len(handled)] = last_job.packet

C13_RoundTripAllBytes ==
    probe.op \in {"zlib", "gzip"} => probe.output = Ok(probe.input)

(* C13, amended: unpack_complete of the zlib or gzip encoding of S returns *)
(* S when S is valid UTF-8, and an InvalidUtf8 error otherwise.            *)
C13_RoundTripUtf8 ==
    probe.op \in {"zlib", "gzip"} =>
        probe.output = IF ValidUtf8(probe.input) THEN Ok(probe.input)
                       ELSE Err("InvalidUtf8")

C13_TwoByteCharacterRoundTrip ==
    /\ probe.op = "gzip" /\ probe.input = <<65, 195, 169>>
    /\ probe.output = Ok(probe.input)

(* C14: accept of a fragment that starts a new partial set while the       *)
(* reaper's end of the channel is gone returns a ReaperUnavailable error,  *)
(* and leaves the lock usable.                                             *)
C14_ReaperGoneIsReturnedAsError ==
    (/\ result.chunk # None
     /\ result.reaper_gone /\ result.fresh
     /\ result.chunk[1].sequence_count >= 2
     /\ result.chunk[1].sequence_number \in 1..result.chunk[1].sequence_count) =>
        /\ result.kind = "ReaperUnavailable"
        /\ ~poisoned
        /\ acc_pc = "idle"

(* C15: the reaper, once in its loop, leaves it only by receiving Quit,    *)
(* which only Drop sends.                                                  *)
C15_ReaperLeavesLoopOnlyByQuit ==
    reaper_pc \notin {"start", "failed", "select", "lock"} =>
        (reaper_pc = "done" /\ dropped)

(* C16: accept of fragment 1 of 1 for an id that is not in the table       *)
(* returns the complete set, holding that fragment, at once, and leaves    *)
(* the table, the signal channel and the eviction queue as they are.       *)
C16_SingleFragmentIsNotInserted ==
    [][LET c == result'.chunk[1] IN
       (/\ IsAcceptCall
        /\ c.id \notin DOMAIN map
        /\ c.sequence_count = 1 /\ c.sequence_number = 1) =>
            /\ result'.kind = "Some"
            /\ result'.set = Some(FreshSet(c))
            /\ map' = map
            /\ chan' = chan
            /\ eviction_fifo' = eviction_fifo
            /\ new_set' = None /\ acc_pc' = "idle"]_vars

C16_SingleFragmentBesidePartialSet ==
    /\ result.kind = "Some" /\ result.fresh
    /\ result.chunk[1].sequence_count = 1
    /\ map # <<>>
    /\ result.chunk[1].id \notin DOMAIN map

(* The reaper has taken from the channel the EvictionEntry of a set that   *)
(* accept has not inserted yet.                                            *)
PendingEntryReceived ==
    /\ acc_pc = "insert" /\ chan = <<>> /\ ReaperAlive
    /\ \/ eviction_fifo # <<>>
          /\ eviction_fifo[Len(eviction_fifo)][1] = new_set[1][1]
       \/ evict_id = Some(new_set[1][1])

HasEvictionRecord(id) ==
    \/ \E i \in DOMAIN chan : chan[i].tag = "EvictionEntry" /\ chan[i].id = id
    \/ \E i \in DOMAIN eviction_fifo : eviction_fifo[i][1] = id
    \/ evict_id = Some(id)

(* C18: until Quit is processed, every id in the table has an eviction     *)
(* record that a running reaper holds or will receive.                     *)
C18_TableIdHasEvictionRecord ==
    reaper_pc # "done" =>
        \A id \in DOMAIN map : ReaperAlive /\ HasEvictionRecord(id)

C20_AbsentIdRemovalIsNoOp ==
    [][/\ (reaper_pc = "select" /\ reaper_pc' = "lock") =>
             /\ evict_id' = Some(eviction_fifo[1][1])
             /\ eviction_fifo' = Tail(eviction_fifo)
       /\ (/\ evict_id # None /\ evict_id' = None
           /\ evict_id[1] \notin DOMAIN map) =>
             /\ map' = map
             /\ reaper_pc' = "select"
             /\ timeout' = Arm(eviction_fifo)]_vars

(* The reaper finishes the entry it popped: lock and remove, lines 106-107. *)
IsReaperRemove == evict_id # None /\ evict_id' = None /\ ~poisoned

(* An EvictionEntry of this id is still on its way to the head of the      *)
(* queue: in the channel or in the queue behind the popped one.            *)
LaterEntryPending(id) ==
    \/ \E i \in DOMAIN eviction_fifo : eviction_fifo[i][1] = id
    \/ \E i \in DOMAIN chan : chan[i].tag = "EvictionEntry" /\ chan[i].id = id

(* C21: the entry left behind by a completed set expires harmlessly.  Each  *)
(* inserted set sends one entry and the entries are processed in the order *)
(* sent, so an entry processed while a later entry of its id is pending is *)
(* the entry of a set that has left the table; processing it removes       *)
(* nothing.                                                                *)
C21_TombstoneRemovesNothing ==
    [][(IsReaperRemove /\ LaterEntryPending(evict_id[1])) => map' = map]_vars

(* C22: the reaper removes a set only when the validity of that set,       *)
(* counted from the arrival of its first fragment, has run out.            *)
C22_RemovedOnlyAfterOwnDeadline ==
    [][(IsReaperRemove /\ evict_id[1] \in DOMAIN map) =>
          get_time >= map[evict_id[1]].first_arrival + Validity]_vars

(* The entry at position i of the queue is the one sent for the set now in *)
(* the table under its id: the set is there and no other entry of the id   *)
(* is in the queue, in the channel or in the reaper's hands.               *)
OwnEntry(i) ==
    LET id == eviction_fifo[i][1] IN
    /\ id \in DOMAIN map
    /\ \A j \in DOMAIN eviction_fifo : eviction_fifo[j][1] = id => j = i
    /\ ~\E j \in DOMAIN chan : chan[j].tag = "EvictionEntry" /\ chan[j].id = id
    /\ evict_id # Some(id)

(* C23: the queue is in non-decreasing deadline order from head to tail,   *)
(* the deadline of an entry being first_arrival + validity of its set.     *)
C23_QueueInDeadlineOrder ==
    \A i, j \in DOMAIN eviction_fifo :
        (i < j /\ OwnEntry(i) /\ OwnEntry(j)) =>
            map[eviction_fifo[i][1]].first_arrival
                <= map[eviction_fifo[j][1]].first_arrival

(* The caller's unpack runs: the only step besides an accept call that     *)
(* changes what the caller holds.                                          *)
IsUnpack == calls' = calls /\ owned' # owned

(* C24: concatenation and decompression run outside the table lock.  The   *)
(* accept that returns a set has removed it and released the lock without  *)
(* having unpacked anything; unpack runs as a later step of the caller, on *)
(* a set that is not in the table, while no accept is inside its critical  *)
(* section, and it touches neither the table, the lock nor the reaper.     *)
C24_UnpackOutsideTheLock ==
    [][/\ (IsAcceptCall /\ result'.kind = "Some") =>
             /\ acc_pc' = "idle" /\ ~poisoned'
             /\ result'.chunk[1].id \notin DOMAIN map'
             /\ owned' = Owned(result'.set, None)
       /\ IsUnpack =>
             /\ acc_pc = "idle" /\ result.kind = "Some"
             /\ result.chunk[1].id \notin DOMAIN map
             /\ owned.set[1] \notin {map[id] : id \in DOMAIN map}
             /\ UNCHANGED <<map, poisoned, chan, acc_pc, new_set, eviction_fifo,
                            timeout, reaper_pc, evict_id, dropped>>]_vars

(* A message was unpacked while another message's set was in the table and *)
(* the reaper had popped an entry and was about to take the lock.          *)
C24_UnpackedBesideReaper ==
    /\ owned.out # None /\ owned.out[1].state = "Returned"
    /\ DOMAIN map # {}
    /\ reaper_pc = "lock" /\ ~poisoned

(* C25: a set returned by accept has every slot filled and rcv_count equal *)
(* to the number of slots, and unpack called on it meets no empty slot.    *)
C25_ReturnedSetIsComplete ==
    [][/\ (IsAcceptCall /\ result'.kind = "Some") =>
             LET set == owned'.set[1] IN
             /\ Len(set.chunks) >= 1
             /\ set.rcv_count = Len(set.chunks)
             /\ \A i \in DOMAIN set.chunks : set.chunks[i] # None
       /\ (IsAcceptCall /\ result'.kind # "Some") => owned'.set = None
       /\ IsUnpack => owned'.out[1].state = "Returned"]_vars

(* A set completed in the table by its second fragment was unpacked to the *)
(* two payloads in order.                                                  *)
C25_TwoFragmentSetUnpacked ==
    /\ owned.out # None /\ owned.out[1].state = "Returned"
    /\ owned.out[1].bytes = Message(65, 2)
    /\ ~result.fresh

(* C26: accept of a chunk that declares sequence_count = 0 returns an      *)
(* error: no set is created or inserted, no fragment is stored, no         *)
(* eviction entry is sent, and the accumulator stays usable.               *)
C26_ZeroCountIsReturnedAsError ==
    [][(IsAcceptCall /\ result'.chunk[1].sequence_count = 0) =>
          /\ result'.kind \notin {"Some", "None", "Insert", "Panic"}
          /\ map' = map /\ chan' = chan
          /\ ~poisoned' /\ acc_pc' = "idle"]_vars

(* The reaper of receiver/chunk_accumulator.rs: while it waits in its      *)
(* select, a timer is armed exactly when the eviction queue is non-empty,  *)
(* and the timeout branch is taken only with an armed timer and a          *)
(* non-empty queue, whose head it pops.                                    *)
ReceiverTimerArmedOnlyForNonEmptyQueue ==
    [][/\ reaper_pc' = "select" => (timeout'.armed <=> Len(eviction_fifo') > 0)
       /\ (reaper_pc = "select" /\ reaper_pc' = "lock") =>
             /\ timeout.armed /\ Len(eviction_fifo) > 0
             /\ Len(eviction_fifo') = Len(eviction_fifo) - 1]_vars

(* The reaper has removed a set on a timeout and is back in its select     *)
(* with an empty queue and no timer, waiting on the channel alone.         *)
ReceiverWaitsOnChannelAlone ==
    /\ reaper_pc = "select" /\ eviction_fifo = <<>> /\ ~timeout.armed
    /\ chan = <<>>
    /\ \E id \in Ids : reaped[id]

(* The timeout branch of message's reaper is taken: it leaves the select   *)
(* for the lock, or panics at the pop.                                     *)
IsMsgTimeout ==
    msg_reaper_pc = "select" /\ msg_reaper_pc' \in {"lock", "panicked"}

(* C27: the timeout branch of the reaper is taken only when the eviction   *)
(* queue is non-empty, so the reaper never pops from an empty queue.       *)
C27_TimeoutOnlyWithNonEmptyQueue ==
    [][IsMsgTimeout =>
          /\ Len(eviction_lifo) > 0
          /\ msg_reaper_pc' = "lock"
          /\ eviction_lifo' = Tail(eviction_lifo)]_vars

(* rcv_count is the number of filled slots and at most the number of slots. *)
CountsFilledSlots(set) ==
    /\ set.rcv_count = Cardinality({i \in DOMAIN set.chunks : set.chunks[i] # None})
    /\ set.rcv_count <= Len(set.chunks)

(* The sets in the table and the one accept is about to insert.            *)
SetsOfAccumulator ==
    {map[id] : id \in DOMAIN map} \cup {new_set[i][2] : i \in DOMAIN new_set}

(* The set in its caller's hands.                                          *)
SetsOfCaller == {owned.set[i] : i \in DOMAIN owned.set}

(* The set of a new id is created with as many slots as the creating       *)
(* fragment declares, and a set in the table keeps its number of slots.    *)
SlotsAsDeclared ==
    /\ (IsAcceptCall /\ result'.fresh /\ result'.kind = "Insert") =>
          Len(new_set'[1][2].chunks) = result'.chunk[1].sequence_count
    /\ (IsAcceptCall /\ result'.fresh /\ result'.kind = "Some") =>
          Len(owned'.set[1].chunks) = result'.chunk[1].sequence_count
    /\ IsAcceptInsert => map'[new_set[1][1]] = new_set[1][2]
    /\ \A id \in DOMAIN map \cap DOMAIN map' :
          Len(map'[id].chunks) = Len(map[id].chunks)
    /\ (IsAcceptCall /\ ~result'.fresh /\ result'.kind = "Some") =>
          Len(owned'.set[1].chunks) = Len(map[result'.chunk[1].id].chunks)

(* C28: in every state of every ChunkSet, in the table or in the hands of  *)
(* the caller it was returned to, rcv_count is the number of filled slots  *)
(* and at most the number of slots, and the number of slots stays the      *)
(* sequence_count of the fragment that created the set.                    *)
C28_CountAndSlotsOfEverySet ==
    [][/\ \A set \in SetsOfAccumulator' \cup SetsOfCaller' : CountsFilledSlots(set)
       /\ SlotsAsDeclared
       /\ IsUnpack => Len(owned'.set[1].chunks) = Len(owned.set[1].chunks)]_vars

(* Neither thread waits for ever: an accept that is inside its critical    *)
(* section, between the send and the insert, leaves it, and a reaper that  *)
(* has popped an entry and waits for the lock gets an answer from it, the  *)
(* guard or the error of a poisoned mutex.                                 *)
NoThreadWaitsForEver ==
    /\ (acc_pc = "insert") ~> (acc_pc = "idle")
    /\ (reaper_pc = "lock") ~> (reaper_pc \in {"select", "panicked"})

(* C29: the acceptor and the reaper never deadlock: every accept call      *)
(* returns, and every timeout step of the reaper completes, the reaper     *)
(* being back in its loop after the remove.                                *)
C29_EveryCallReturnsEveryStepCompletes ==
    /\ [][IsAcceptCall => result'.kind # "Panic"]_vars
    /\ (acc_pc = "insert") ~> (acc_pc = "idle")
    /\ (reaper_pc = "lock") ~> (reaper_pc = "select")

====
